---- MODULE Spec2Model ----
(***************************************************************************)
(* Hurricane Hunter: the hurricane dashboard's App component (data fetch   *)
(* rounds, demo fallback, proximity analysis, view state) with its         *)
(* TimeSlider and StormFilter, the windborne dashboard's App (data effect, *)
(* fetch rounds) and the backend aggregation cache (fan-out fetcher, TTL   *)
(* cache with coalesced refreshes).                                        *)
(*                                                                         *)
(* Positions are <<lon, lat>> pairs in kilometres of a local planar frame  *)
(* (the frame turf.buffer projects into before it buffers).                *)
(***************************************************************************)
EXTENDS Integers, Sequences, FiniteSets, TLC

VARIABLES
    \* ---- hurricane dashboard App (React state, useState) ----
    balloons,            \* Null or Some(map id -> [id, trajectory])
    storms,              \* Null or Some(sequence of storm features)
    loading,             \* BOOLEAN
    error,               \* Null or Some(message)
    monitoringBalloons,  \* sequence of balloon ids
    selectedTime,        \* 0..100, the TimeSlider's position as the App holds it
    \* ---- App: scheduling state of its callbacks ----
    inFlight,            \* number of fetchData rounds started and not completed
    effectPending,       \* the proximity effect is scheduled (balloons or storms changed)
    crashed,             \* an effect threw: React unmounted the tree
    lastRound,           \* "none" | "ok" | "failed": branch the last completed round took
    \* ---- App: what its last proximity pass and its last render computed ----
    passLog,             \* the turf calls of the last proximity pass, in order
    filteredBalloons     \* Null (nothing rendered) or Some(getFilteredBalloons())

appVars == <<balloons, storms, loading, error, monitoringBalloons, selectedTime,
             inFlight, effectPending, crashed, lastRound, passLog, filteredBalloons>>

VARIABLES
    \* ---- TimeSlider component ----
    currentTime,   \* 0..100
    isPlaying,     \* BOOLEAN
    lastAct,       \* "none" | "slider" | "toggle" | "reset" | "tick": the last callback run
    userActs       \* clicks and drags the user has yet to make

sliderVars == <<currentTime, isPlaying, lastAct, userActs>>

VARIABLES
    \* ---- hurricane dashboard App: the user's view state (useState) ----
    stormFilters,        \* [severity, eventType, showAll]: what getFilteredStorms reads
    selectedBalloonId,   \* Null or Some(balloon id)
    showCoverage,        \* BOOLEAN
    traditionalStations, \* Null or Some(stations dataset)
    stationsInFlight,    \* number of traditional-stations requests not yet answered
    filteredStorms,      \* Null (nothing rendered) or Some(getFilteredStorms())
    viewActs,            \* clicks on the filter, the map and the toggle yet to be made
    \* ---- StormFilter component (useState) ----
    filters              \* [severity, eventType, showAll]: what the checkboxes show

viewVars == <<stormFilters, selectedBalloonId, showCoverage, traditionalStations,
              stationsInFlight, filteredStorms, viewActs>>

VARIABLES
    \* ---- windborne dashboard App: the data effect and its timer ----
    isLive,          \* BOOLEAN, the live-updates toggle
    mounted,         \* the App is mounted
    timers,          \* number of active setInterval timers
    interval,        \* the current effect instance holds an interval id
    timerAge,        \* minutes since the active timer was set or last fired
    fetchAge,        \* minutes since fetchData was last started
    fetchBy,         \* "none" | "effect" | "timer": what started fetchData last
    wbUserActs       \* toggles and map moves the user has yet to make

wbVars == <<isLive, mounted, timers, interval, timerAge, fetchAge, fetchBy, wbUserActs>>

VARIABLES
    \* ---- windborne dashboard App: data and status (useState) ----
    wbBalloons,        \* balloons: Null or Some(object keyed by balloon id)
    wbStorms,          \* storms: Null or Some(list)
    wbError,           \* error: Null or Some(message)
    isLoading,         \* BOOLEAN
    connectionStatus,  \* "connecting" | "connected" | "error"
    \* ---- windborne dashboard App: its fetchData rounds ----
    wbFetching,        \* rounds awaiting their two responses
    wbWeather,         \* rounds past setBalloons/setStorms, awaiting fetchWeatherData
    wbEverOk,          \* a round has stored balloons and storms
    wbEverFailed       \* a round has ended in the catch branch

wbFetchVars == <<wbBalloons, wbStorms, wbError, isLoading, connectionStatus,
                 wbFetching, wbWeather, wbEverOk, wbEverFailed>>

VARIABLES
    \* ---- backend aggregation cache ----
    \* (one cache instance per dataset key; the instances share nothing)
    dataset,     \* the key of this instance: "trajectories" or "hazards"
    now,         \* the clock
    entry,       \* Null or Some([snapshot, expiresAt])
    refreshing,  \* the "refresh in progress" flag
    pc,          \* caller -> "idle" | "fetching" | "awaiting" | "done"
    result,      \* caller -> what its get returned
    tasks,       \* caller -> source -> task of the fan-out round it leads
    merged,      \* caller -> records merged so far in the round it leads
    abandoned    \* sources whose abandoned task is still running

cacheVars == <<dataset, now, entry, refreshing, pc, result, tasks, merged, abandoned>>

vars == <<appVars, sliderVars, viewVars, filters, wbVars, wbFetchVars, cacheVars>>

-----------------------------------------------------------------------------
(* Nullable values: JavaScript null is the empty tuple, a value v is <<v>>. *)
Null == << >>
Some(v) == << v >>
Val(o) == o[1]

-----------------------------------------------------------------------------
(* Bounds of the model *)
MaxPts == 2        \* longest trajectory drawn as classifier input
MaxStorms == 2     \* longest storm list drawn as classifier input
MaxInFlight == 2   \* fetch rounds that may overlap
NumCallers == 2    \* concurrent callers of the cache
MaxTime == 3       \* clock ticks
MaxUserActs == 2   \* clicks and drags on the TimeSlider
MaxWbActs == 4      \* toggles, map moves and (un)mounts of the windborne dashboard
MaxViewActs == 3    \* clicks on the storm filter, the balloons and the coverage toggle
MaxWbInFlight == 2  \* fetchData rounds of the windborne dashboard that may overlap

-----------------------------------------------------------------------------
(* Geometry: turf.polygon, turf.buffer, turf.booleanPointInPolygon *)

monitoringDistance == 100   \* km

Max2(a, b) == IF a >= b THEN a ELSE b

\* A linear ring is a sequence of positions <<lon, lat>>.
RingXs(ring) == {ring[i][1] : i \in 1..Len(ring)}
RingYs(ring) == {ring[i][2] : i \in 1..Len(ring)}
MinOf(S) == CHOOSE m \in S : \A n \in S : m <= n
MaxOf(S) == CHOOSE m \in S : \A n \in S : m >= n

\* turf.polygon(coordinates) throws unless every ring has at least 4
\* positions and repeats its first position as its last.
turfPolygonThrows(coordinates) ==
    \E r \in 1..Len(coordinates) :
        \/ Len(coordinates[r]) < 4
        \/ coordinates[r][1] # coordinates[r][Len(coordinates[r])]

\* Squared distance from a position to the (axis-aligned rectangular) area
\* enclosed by the outer ring; 0 inside and on the boundary.
DistSq(pt, ring) ==
    LET dx == Max2(Max2(MinOf(RingXs(ring)) - pt[1], pt[1] - MaxOf(RingXs(ring))), 0)
        dy == Max2(Max2(MinOf(RingYs(ring)) - pt[2], pt[2] - MaxOf(RingYs(ring))), 0)
    IN  dx * dx + dy * dy

\* turf.buffer(polygon, radius, {units: 'kilometers'}): the region within
\* radius of the polygon, kept as the outer ring and the radius.
turfBuffer(coordinates, radius) == [ring |-> coordinates[1], radius |-> radius]

\* How far a position lies outside the extent of the ring on each axis
OffsetX(pt, ring) == Max2(Max2(MinOf(RingXs(ring)) - pt[1], pt[1] - MaxOf(RingXs(ring))), 0)
OffsetY(pt, ring) == Max2(Max2(MinOf(RingYs(ring)) - pt[2], pt[2] - MaxOf(RingYs(ring))), 0)

\* turf.buffer offsets each edge by the radius and joins the offset edges
\* round a corner by an arc of `steps` segments per quarter circle (8, the
\* default: the call passes none).  The arc's vertices lie on the circle, so
\* the 8 chords run inside it.  ChordNormals holds the outward unit normal of
\* each chord (cos and sin of 5.625 + 11.25k degrees, times 1000) and
\* ChordApothem the distance of a chord from the corner for radius 1
\* (cos 5.625 degrees, times 1000).
ChordNormals == << <<995, 98>>, <<957, 290>>, <<882, 471>>, <<773, 634>>,
                   <<634, 773>>, <<471, 882>>, <<290, 957>>, <<98, 995>> >>
ChordApothem == 995

\* a variant of booleanPointInPolygon with the test negated
booleanPointNotInPolygon(pt, buffer) ==
    \/ OffsetX(pt, buffer.ring) > buffer.radius
    \/ OffsetY(pt, buffer.ring) > buffer.radius

\* turf.booleanPointInPolygon(point, buffer): inside the buffer's ring or on
\* it (ignoreBoundary is not set).  Beside an edge the ring is the edge
\* moved out by the radius; off a corner it is the 8 chords.
booleanPointInPolygon(pt, buffer) ==
    LET dx == OffsetX(pt, buffer.ring)
        dy == OffsetY(pt, buffer.ring)
    IN  /\ dx <= buffer.radius
        /\ dy <= buffer.radius
        /\ (dx > 0 /\ dy > 0) =>
              \A k \in DOMAIN ChordNormals :
                  dx * ChordNormals[k][1] + dy * ChordNormals[k][2]
                      <= buffer.radius * ChordApothem

-----------------------------------------------------------------------------
(* Input sets *)

\* <<50, 50>> is inside H1; <<200, 50>> is exactly 100 km east of H1's edge;
\* <<171, 171>> is 71 km off H1's corner on both axes (just outside the
\* round corner of H1's buffer) and 29 km off H2's corner (inside H2's buffer)
Points == {<<50, 50>>, <<200, 50>>, <<171, 171>>}

Rect(x1, y1, x2, y2) ==
    <<<<x1, y1>>, <<x1, y2>>, <<x2, y2>>, <<x2, y1>>, <<x1, y1>>>>

Polygon(coordinates) == Some([type |-> "Polygon", coordinates |-> coordinates])

\* Storm features as /api/storms returns them.
H1 == [id |-> "H1", geometry |-> Polygon(<<Rect(0, 0, 100, 100)>>)]
H2 == [id |-> "H2", geometry |-> Polygon(<<Rect(200, 200, 300, 300)>>)]
HNoGeometry == [id |-> "H3", geometry |-> Null]
\* a ring that does not repeat its first position
HOpenRing == [id |-> "H4", geometry |->
                Polygon(<<<<<<0, 0>>, <<0, 100>>, <<100, 100>>, <<100, 0>>>>>>)]

Hazards == {H1, H2, HNoGeometry, HOpenRing}

BalloonIds == <<"b1", "b2">>
IdSet == {BalloonIds[i] : i \in 1..Len(BalloonIds)}

SeqsUpTo(S, n) == UNION {[1..k -> S] : k \in 0..n}

Trajectories == SeqsUpTo(Points, MaxPts)

\* /api/balloons/history: an object keyed by balloon id
BalloonMaps ==
    UNION {{[id \in D |-> [id |-> id, trajectory |-> t[id]]] : t \in [D -> Trajectories]} :
           D \in {{BalloonIds[i] : i \in 1..n} : n \in 0..Len(BalloonIds)}}

StormLists == SeqsUpTo(Hazards, MaxStorms)

\* What the App's fetch rounds receive from the backend
FeedBalloons == {b \in BalloonMaps : \A id \in DOMAIN b : Len(b[id].trajectory) = 1}
FeedStorms == {s \in StormLists : Len(s) <= 1}

-----------------------------------------------------------------------------
(* generateDemoData: 3 balloons of 24 points, 2 storm polygons.  The frame  *)
(* has its origin at lon -92, lat 27 and 100 km to the degree; jitter is    *)
(* the Math.random() draw, one of its extremes or its middle.               *)

Jitters == {-1, 0, 1}

balloonRegions == <<[lat |-> 200, lon |-> 200],      \* 29.0, -90.0
                    [lat |-> 50, lon |-> 950],       \* 27.5, -82.5
                    [lat |-> 400, lon |-> 1100]>>    \* 31.0, -81.0

demoTrajectory(region, jitter) ==
    [j \in 1..24 |-> <<region.lon + (((j - 1) * 200) \div 24) + jitter * 40,
                       region.lat + jitter * 50>>]

demoId(i) == CASE i = 0 -> "balloon_0" [] i = 1 -> "balloon_1" [] OTHER -> "balloon_2"

generateDemoData(jitter) ==
    [balloons |->
        [id \in {demoId(i) : i \in 0..2} |->
            [id |-> id,
             trajectory |->
                demoTrajectory(balloonRegions[(CHOOSE i \in 0..2 : demoId(i) = id) + 1],
                               jitter)]],
     storms |->
        <<[id |-> "storm_1",
           properties |-> [severity |-> Some("Extreme"),
                           event |-> Some("Hurricane Warning")],
           geometry |-> Polygon(<<Rect(0, 0, 300, 300)>>)],
          [id |-> "storm_2",
           properties |-> [severity |-> Some("Moderate"),
                           event |-> Some("Tropical Storm Warning")],
           geometry |-> Polygon(<<Rect(1400, 400, 1700, 700)>>)]>>]

DemoIdOrder == <<"balloon_0", "balloon_1", "balloon_2">>

-----------------------------------------------------------------------------
(* The two scenarios of the design: balloon "B1", 3 points, the last at     *)
(* lat 29.0, lon -90.0; one hazard.  Same frame as the demo data: origin    *)
(* at lon -92, lat 27, 100 km to the degree.                                *)

ScenarioIds == <<"B1">>
ScenarioEnd == <<200, 200>>                       \* lat 29.0, lon -90.0
\* where the first two points may lie: the first four within a degree of the
\* end point, the last four two to four degrees from it
ScenarioPoints == {<<190, 190>>, <<200, 210>>, <<150, 250>>, <<250, 150>>,
                   <<-200, 200>>, <<200, -150>>, <<500, 200>>, <<200, 450>>}
ScenarioTrajectories == {<<p1, p2, ScenarioEnd>> : p1, p2 \in ScenarioPoints}
ScenarioBalloons ==
    {[id \in {"B1"} |-> [id |-> id, trajectory |-> t]] : t \in ScenarioTrajectories}
\* lat 28..30, lon -91..-89
HScenarioHit == [id |-> "H1", geometry |-> Polygon(<<Rect(100, 100, 300, 300)>>)]
\* lat 10..12, lon 100..102
HScenarioMiss == [id |-> "H1", geometry |-> Polygon(<<Rect(19200, -1700, 19400, -1500)>>)]

-----------------------------------------------------------------------------
(* Proximity analysis effect *)

\* Object.entries(balloons): the ids in insertion order
ObjectEntries(b) ==
    SelectSeq(BalloonIds \o DemoIdOrder \o ScenarioIds, LAMBDA id : id \in DOMAIN b)

\* a variant of trajectorySome that tests trajectory[0] only
trajectorySomeFirstOnly(trajectory, stormBuffer) ==
    Len(trajectory) > 0 /\ booleanPointInPolygon(trajectory[1], stormBuffer)

\* balloon.trajectory.some(point => booleanPointInPolygon(point, stormBuffer))
trajectorySome(trajectory, stormBuffer) ==
    \E i \in 1..Len(trajectory) : booleanPointInPolygon(trajectory[i], stormBuffer)

\* storms.some(storm => ...) for one balloon, from storm i on:
\* "true", "false", or "throw" when turf.polygon throws before any hit
RECURSIVE stormsSome(_, _, _)
stormsSome(stormList, trajectory, i) ==
    IF i > Len(stormList) THEN "false"
    ELSE LET storm == stormList[i] IN
         IF storm.geometry = Null THEN stormsSome(stormList, trajectory, i + 1)
         ELSE IF turfPolygonThrows(Val(storm.geometry).coordinates) THEN "throw"
         ELSE IF trajectorySome(trajectory,
                                turfBuffer(Val(storm.geometry).coordinates,
                                           monitoringDistance))
              THEN "true"
              ELSE stormsSome(stormList, trajectory, i + 1)

\* The forEach over the balloons: the ids pushed to monitoring, and whether
\* the pass threw (then setMonitoringBalloons is never reached).
proximityAnalysis(b, stormList) ==
    LET ids == ObjectEntries(b)
        res == [i \in 1..Len(ids) |-> stormsSome(stormList, b[ids[i]].trajectory, 1)]
    IN  [threw |-> \E i \in 1..Len(ids) : res[i] = "throw",
         monitoring |-> SelectSeq(ids, LAMBDA id : stormsSome(stormList, b[id].trajectory, 1) = "true")]

\* The turf calls of the pass, in the order the code makes them: one
\* "buffer" event per turf.buffer call, one "test" event per
\* booleanPointInPolygon call.
BufferCall(id, k) ==
    [op |-> "buffer", balloon |-> id, storm |-> k, point |-> 0, hit |-> FALSE]
PointTest(id, k, i, hit) ==
    [op |-> "test", balloon |-> id, storm |-> k, point |-> i, hit |-> hit]

\* a variant of trajectoryTests that tests every point (filter(...).length > 0)
trajectoryTestsAll(id, k, trajectory, stormBuffer, i) ==
    [j \in 1..(Len(trajectory) - i + 1) |->
        PointTest(id, k, i + j - 1,
                  booleanPointInPolygon(trajectory[i + j - 1], stormBuffer))]

\* balloon.trajectory.some(...) from point i on: Array.prototype.some stops
\* at the first point for which the callback returns true
RECURSIVE trajectoryTests(_, _, _, _, _)
trajectoryTests(id, k, trajectory, stormBuffer, i) ==
    IF i > Len(trajectory) THEN << >>
    ELSE LET hit == booleanPointInPolygon(trajectory[i], stormBuffer) IN
         <<PointTest(id, k, i, hit)>>
            \o (IF hit THEN << >>
                ELSE trajectoryTests(id, k, trajectory, stormBuffer, i + 1))

\* storms.some(...) for one balloon from storm k on: the calls it makes
\* until a storm's callback returns true or turf.polygon throws
RECURSIVE stormsCalls(_, _, _, _)
stormsCalls(stormList, id, trajectory, k) ==
    IF k > Len(stormList) THEN << >>
    ELSE LET storm == stormList[k] IN
         IF storm.geometry = Null THEN stormsCalls(stormList, id, trajectory, k + 1)
         ELSE IF turfPolygonThrows(Val(storm.geometry).coordinates) THEN << >>
         ELSE LET stormBuffer == turfBuffer(Val(storm.geometry).coordinates,
                                            monitoringDistance)
                  tests == trajectoryTests(id, k, trajectory, stormBuffer, 1)
              IN  <<BufferCall(id, k)>> \o tests
                    \o (IF trajectorySome(trajectory, stormBuffer) THEN << >>
                        ELSE stormsCalls(stormList, id, trajectory, k + 1))

\* the forEach over the balloons from entry n on, until a callback throws
RECURSIVE passCalls(_, _, _)
passCalls(b, stormList, n) ==
    LET ids == ObjectEntries(b) IN
    IF n > Len(ids) THEN << >>
    ELSE stormsCalls(stormList, ids[n], b[ids[n]].trajectory, 1)
            \o (IF stormsSome(stormList, b[ids[n]].trajectory, 1) = "throw" THEN << >>
                ELSE passCalls(b, stormList, n + 1))

ProximityEffect ==
    /\ ~crashed
    /\ effectPending
    /\ effectPending' = FALSE
    /\ IF balloons = Null \/ storms = Null
       THEN /\ monitoringBalloons' = << >>
            /\ crashed' = FALSE
            /\ passLog' = << >>
       ELSE LET r == proximityAnalysis(Val(balloons), Val(storms)) IN
            /\ passLog' = passCalls(Val(balloons), Val(storms), 1)
            /\ IF r.threw
               THEN /\ crashed' = TRUE
                    /\ UNCHANGED monitoringBalloons
               ELSE /\ monitoringBalloons' = r.monitoring
                    /\ crashed' = FALSE
    /\ UNCHANGED <<balloons, storms, loading, error, inFlight, lastRound,
                   selectedTime, filteredBalloons>>

-----------------------------------------------------------------------------
(* Storm filter: the StormFilter component and the App's getFilteredStorms *)

SeverityKeys == {"Extreme", "Severe", "Moderate", "Minor", "Unknown"}

\* useState of both the App's stormFilters and the StormFilter's filters
InitialFilters ==
    [severity |-> [s \in SeverityKeys |-> TRUE],
     eventType |-> [e \in {} |-> TRUE],
     showAll |-> TRUE]

\* storm.properties?.severity || 'Unknown'
stormSeverity(storm) ==
    IF "properties" \in DOMAIN storm /\ storm.properties.severity # Null
    THEN Val(storm.properties.severity)
    ELSE "Unknown"

\* storm.properties?.event: Null when the storm has none
stormEvent(storm) ==
    IF "properties" \in DOMAIN storm THEN storm.properties.event ELSE Null

\* Object.values(flags).every(v => v)
everyFlag(flags) == \A k \in DOMAIN flags : flags[k]

\* flags[key] || false
flagOf(flags, key) == IF key \in DOMAIN flags THEN flags[key] ELSE FALSE

\* a variant of the filter that passes a storm whose event type has no flag
stormPassesUnknownEvent(storm, f) ==
    /\ flagOf(f.severity, stormSeverity(storm))
    /\ IF stormEvent(storm) # Null /\ Val(stormEvent(storm)) \in DOMAIN f.eventType
       THEN f.eventType[Val(stormEvent(storm))]
       ELSE TRUE

\* the callback of storms.filter: severityMatch && eventTypeMatch
stormPasses(storm, f) ==
    /\ flagOf(f.severity, stormSeverity(storm))
    /\ IF stormEvent(storm) # Null
       THEN flagOf(f.eventType, Val(stormEvent(storm)))
       ELSE TRUE

RECURSIVE stormsFilter(_, _, _)
stormsFilter(stormList, f, i) ==
    IF i > Len(stormList) THEN << >>
    ELSE (IF stormPasses(stormList[i], f) THEN <<stormList[i]>> ELSE << >>)
         \o stormsFilter(stormList, f, i + 1)

\* getFilteredStorms of the App, on a nullable storms list
getFilteredStorms(stormsOpt, f) ==
    IF stormsOpt = Null \/ f.showAll
    THEN stormsOpt
    ELSE Some(stormsFilter(Val(stormsOpt), f, 1))

\* the StormFilter's effect on [storms]: every event type of the storms gets
\* a flag, set to true; severity and showAll are kept (...prev)
stormsEffect(prev, stormsOpt) ==
    IF stormsOpt = Null THEN prev
    ELSE [prev EXCEPT
            !.eventType = [ev \in {Val(stormEvent(Val(stormsOpt)[i])) :
                                     i \in {j \in DOMAIN Val(stormsOpt) :
                                               stormEvent(Val(stormsOpt)[j]) # Null}}
                           |-> TRUE]]

\* The App renders StormFilter, TimeSlider and the map only past its loading
\* and error screens; the effects of a render run before the next event
ChildrenMounted == ~loading /\ error = Null /\ ~crashed /\ ~effectPending

\* newFilters.showAll = allSeverityEnabled && allEventEnabled
withShowAll(newFilters) ==
    [newFilters EXCEPT !.showAll = everyFlag(newFilters.severity)
                                   /\ everyFlag(newFilters.eventType)]

\* setFilters(newFilters); onFilterChange(newFilters): the App's
\* handleFilterChange, setStormFilters(filters)
publishFilters(newFilters) ==
    /\ filters' = newFilters
    /\ stormFilters' = newFilters

handleSeverityChange(severity, checked) ==
    /\ ChildrenMounted
    /\ viewActs > 0
    /\ viewActs' = viewActs - 1
    /\ publishFilters(withShowAll([filters EXCEPT !.severity[severity] = checked]))
    /\ UNCHANGED <<selectedBalloonId, showCoverage, traditionalStations, stationsInFlight,
                   filteredStorms>>

handleEventTypeChange(eventType, checked) ==
    /\ ChildrenMounted
    /\ viewActs > 0
    /\ viewActs' = viewActs - 1
    /\ publishFilters(withShowAll([filters EXCEPT !.eventType[eventType] = checked]))
    /\ UNCHANGED <<selectedBalloonId, showCoverage, traditionalStations, stationsInFlight,
                   filteredStorms>>

handleShowAllToggle ==
    /\ ChildrenMounted
    /\ viewActs > 0
    /\ viewActs' = viewActs - 1
    /\ LET showAll == ~filters.showAll IN
        publishFilters([severity |-> [k \in DOMAIN filters.severity |-> showAll],
                        eventType |-> [k \in DOMAIN filters.eventType |-> showAll],
                        showAll |-> showAll])
    /\ UNCHANGED <<selectedBalloonId, showCoverage, traditionalStations, stationsInFlight,
                   filteredStorms>>

\* A round that ends shows the map again.  Past the loading screen
\* StormFilter and TimeSlider mount anew: useState gives them their initial
\* state, and their effects run (onTimeChange(currentTime), the storms
\* effect).  With the map already shown (an earlier overlapping round ended)
\* they stay mounted and the storms effect runs on the new storms.
childrenAfterRound(stormsOpt) ==
    IF loading
    THEN /\ currentTime' = 100
         /\ isPlaying' = FALSE
         /\ lastAct' = "none"
         /\ UNCHANGED userActs
         /\ selectedTime' = currentTime'
         /\ filters' = stormsEffect(InitialFilters, stormsOpt)
    ELSE /\ UNCHANGED <<sliderVars, selectedTime>>
         /\ filters' = stormsEffect(filters, stormsOpt)

-----------------------------------------------------------------------------
(* fetchData rounds *)

\* setInterval(fetchData, 30000): a round starts, setLoading(true)
FetchStart ==
    /\ ~crashed /\ ~effectPending
    /\ inFlight < MaxInFlight
    /\ inFlight' = inFlight + 1
    /\ loading' = TRUE
    /\ UNCHANGED <<balloons, storms, error, monitoringBalloons, effectPending,
                   crashed, lastRound, selectedTime, passLog, filteredBalloons,
                   sliderVars, filters>>

\* both responses ok: setBalloons, setStorms, setError(null), setLoading(false)
FetchOk(balloonsData, stormsData) ==
    /\ ~crashed /\ ~effectPending
    /\ inFlight > 0
    /\ inFlight' = inFlight - 1
    /\ balloons' = Some(balloonsData)
    /\ storms' = Some(stormsData)
    /\ error' = Null
    /\ loading' = FALSE
    /\ effectPending' = TRUE
    /\ lastRound' = "ok"
    /\ childrenAfterRound(storms')
    /\ UNCHANGED <<monitoringBalloons, crashed, passLog, filteredBalloons>>

\* a variant of the catch branch that reports the error and keeps the data
FetchFailShowsError(jitter) ==
    /\ ~crashed /\ ~effectPending
    /\ inFlight > 0
    /\ inFlight' = inFlight - 1
    /\ error' = Some("Failed to fetch data from backend")
    /\ loading' = FALSE
    /\ lastRound' = "failed"
    /\ childrenAfterRound(Null)
    /\ UNCHANGED <<balloons, storms, effectPending, monitoringBalloons, crashed,
                   passLog, filteredBalloons>>

\* a request rejected or a response not ok: the catch branch
FetchFail(jitter) ==
    /\ ~crashed /\ ~effectPending
    /\ inFlight > 0
    /\ inFlight' = inFlight - 1
    /\ LET demoData == generateDemoData(jitter) IN
        /\ balloons' = Some(demoData.balloons)
        /\ storms' = Some(demoData.storms)
    /\ error' = Null
    /\ loading' = FALSE
    /\ effectPending' = TRUE
    /\ lastRound' = "failed"
    /\ childrenAfterRound(storms')
    /\ UNCHANGED <<monitoringBalloons, crashed, passLog, filteredBalloons>>

-----------------------------------------------------------------------------
(* The App after mount: the first fetchData round is in flight, the         *)
(* proximity effect has run on the null datasets.                           *)
AppMounted ==
    /\ balloons = Null
    /\ storms = Null
    /\ loading = TRUE
    /\ error = Null
    /\ monitoringBalloons = << >>
    /\ selectedTime = 100
    /\ inFlight = 1
    /\ effectPending = FALSE
    /\ crashed = FALSE
    /\ lastRound = "none"
    /\ passLog = << >>
    /\ filteredBalloons = Null

\* The scenarios' datasets, before the effect runs
ScenarioInputs ==
    /\ balloons \in {Some(b) : b \in ScenarioBalloons}
    /\ storms \in {Some(<<HScenarioHit>>), Some(<<HScenarioMiss>>)}
    /\ loading = FALSE
    /\ error = Null
    /\ monitoringBalloons = << >>
    /\ selectedTime = 100
    /\ inFlight = 0
    /\ effectPending = TRUE
    /\ crashed = FALSE
    /\ lastRound = "ok"
    /\ passLog = << >>
    /\ filteredBalloons = Null

\* Positions at and about the threshold from H1: inside H1; 100 km east of
\* its east edge and 1 km further; 100 km from its corner <<100, 100>>
\* (60 east, 80 north of it), and 1 km nearer and further on each axis
BoundaryPoints == {<<50, 50>>, <<200, 50>>, <<201, 50>>,
                   <<160, 180>>, <<159, 179>>, <<161, 181>>}

\* One balloon about the threshold of H1, with or without H2 before or after it
BoundaryInputs ==
    /\ balloons \in {Some([id \in {"b1"} |-> [id |-> id, trajectory |-> t]]) :
                        t \in SeqsUpTo(BoundaryPoints, MaxPts)}
    /\ storms \in {Some(sl) : sl \in SeqsUpTo({H1, H2}, MaxStorms)}
    /\ loading = FALSE
    /\ error = Null
    /\ monitoringBalloons = << >>
    /\ selectedTime = 100
    /\ inFlight = 0
    /\ effectPending = TRUE
    /\ crashed = FALSE
    /\ lastRound = "ok"
    /\ passLog = << >>
    /\ filteredBalloons = Null

\* The classifier on its own: the datasets are drawn, the effect runs.
ClassifierInputs ==
    /\ balloons \in {Null} \cup {Some(b) : b \in BalloonMaps}
    /\ storms \in {Null} \cup {Some(s) : s \in StormLists}
    /\ loading = FALSE
    /\ error = Null
    /\ monitoringBalloons = << >>
    /\ selectedTime = 100
    /\ inFlight = 0
    /\ effectPending = TRUE
    /\ crashed = FALSE
    /\ lastRound = "ok"
    /\ passLog = << >>
    /\ filteredBalloons = Null


-----------------------------------------------------------------------------
(* getFilteredBalloons: the trajectories cut at the selected time *)

\* The pairs <<n, t>>, n <= 100, for which the double n * (t / 100) falls
\* below the integer n*t/100 it should equal: t / 100 rounds below the
\* fraction and the product does not round back (IEEE 754 binary64; for no
\* pair does the product's floor exceed that of the exact value)
FloorBelow == {<<50, 58>>, <<90, 70>>, <<100, 29>>, <<100, 57>>, <<100, 58>>}

\* Math.floor(trajectory.length * timeRatio), timeRatio = selectedTime / 100
MathFloorOfProduct(n, t) ==
    ((n * t) \div 100) - (IF <<n, t>> \in FloorBelow THEN 1 ELSE 0)

\* Math.max(1, Math.floor(trajectory.length * timeRatio))
targetLength(n, t) == Max2(1, MathFloorOfProduct(n, t))

\* trajectory.slice(0, end)
slice(trajectory, end) ==
    SubSeq(trajectory, 1, IF end <= Len(trajectory) THEN end ELSE Len(trajectory))

\* getFilteredBalloons() for balloons b (Null or Some(map)) at time t
getFilteredBalloons(b, t) ==
    IF b = Null \/ t = 100 THEN b
    ELSE Some([id \in DOMAIN Val(b) |->
                 [id |-> Val(b)[id].id,
                  trajectory |-> slice(Val(b)[id].trajectory,
                                       targetLength(Len(Val(b)[id].trajectory), t))]])

\* The App renders the map: const filteredBalloons = getFilteredBalloons()
RenderFiltered ==
    /\ ~loading /\ error = Null /\ ~crashed
    /\ filteredBalloons = Null
    /\ filteredBalloons' = Some(getFilteredBalloons(balloons, selectedTime))
    /\ UNCHANGED <<balloons, storms, loading, error, monitoringBalloons, selectedTime,
                   inFlight, effectPending, crashed, lastRound, passLog>>

\* Trajectory lengths drawn: none, the shortest, the demo data's 24, and 50
TrajLengths == {0, 1, 2, 3, 24, 50}
\* a trajectory of n distinct points
TimedTrajectory(n) == [i \in 1..n |-> <<i, 0>>]
TimedBalloons ==
    UNION {{[id \in D |-> [id |-> id, trajectory |-> TimedTrajectory(len[id])]] :
                len \in [D -> TrajLengths]} : D \in {{"b1"}, {"b1", "b2"}}}

\* Datasets and a slider position, nothing rendered yet
TimeFilterInputs ==
    /\ balloons \in {Null} \cup {Some(b) : b \in TimedBalloons}
    /\ storms = Some(<< >>)
    /\ selectedTime \in 0..100
    /\ loading = FALSE
    /\ error = Null
    /\ monitoringBalloons = << >>
    /\ inFlight = 0
    /\ effectPending = FALSE
    /\ crashed = FALSE
    /\ lastRound = "ok"
    /\ passLog = << >>
    /\ filteredBalloons = Null

-----------------------------------------------------------------------------
(* TimeSlider: playback, slider, reset.  After each change of currentTime   *)
(* the component's effect calls onTimeChange(currentTime), the App's        *)
(* handleTimeChange: setSelectedTime(time).                                 *)

\* a variant of the interval callback that never stops
PlaybackTickNoStop ==
    /\ ChildrenMounted /\ isPlaying
    /\ currentTime' = currentTime + 1
    /\ selectedTime' = currentTime'
    /\ lastAct' = "tick"
    /\ UNCHANGED <<isPlaying, userActs>>

\* the interval callback, every 200 ms while isPlaying:
\* setCurrentTime(prevTime => ...)
PlaybackTick ==
    /\ ChildrenMounted /\ isPlaying
    /\ IF currentTime >= 100
       THEN /\ isPlaying' = FALSE
            /\ currentTime' = 100
       ELSE /\ currentTime' = currentTime + 1
            /\ UNCHANGED isPlaying
    /\ selectedTime' = currentTime'
    /\ lastAct' = "tick"
    /\ UNCHANGED userActs

handleSliderChange(value) ==
    /\ ChildrenMounted
    /\ userActs > 0
    /\ userActs' = userActs - 1
    /\ currentTime' = value
    /\ isPlaying' = FALSE
    /\ selectedTime' = currentTime'
    /\ lastAct' = "slider"

togglePlayback ==
    /\ ChildrenMounted
    /\ userActs > 0
    /\ userActs' = userActs - 1
    /\ currentTime' = IF currentTime >= 100 THEN 0 ELSE currentTime
    /\ isPlaying' = ~isPlaying
    /\ selectedTime' = currentTime'
    /\ lastAct' = "toggle"

resetToNow ==
    /\ ChildrenMounted
    /\ userActs > 0
    /\ userActs' = userActs - 1
    /\ currentTime' = 100
    /\ isPlaying' = FALSE
    /\ selectedTime' = currentTime'
    /\ lastAct' = "reset"

\* TimeSlider as it mounts
SliderMounted ==
    /\ currentTime = 100
    /\ isPlaying = FALSE
    /\ lastAct = "none"
    /\ userActs = MaxUserActs

\* The App showing the map (the TimeSlider is rendered): a round has
\* succeeded and the proximity effect has run
AppShowsMap ==
    /\ balloons = Some([id \in {"b1"} |-> [id |-> id, trajectory |-> <<<<50, 50>>>>]])
    /\ storms = Some(<< >>)
    /\ loading = FALSE
    /\ error = Null
    /\ monitoringBalloons = << >>
    /\ selectedTime = 100
    /\ inFlight = 0
    /\ effectPending = FALSE
    /\ crashed = FALSE
    /\ lastRound = "ok"
    /\ passLog = << >>
    /\ filteredBalloons = Null

-----------------------------------------------------------------------------
(* The App's view state: filtered storms, balloon selection, coverage *)

\* the render: const filteredStorms = getFilteredStorms()
RenderStorms ==
    /\ ChildrenMounted
    /\ filteredStorms = Null
    /\ filteredStorms' = Some(getFilteredStorms(storms, stormFilters))
    /\ UNCHANGED <<stormFilters, selectedBalloonId, showCoverage, traditionalStations,
                   stationsInFlight, viewActs, filters>>

\* a click on the marker of a balloon on the map: setSelectedBalloonId(balloonId)
handleBalloonSelect(balloonId) ==
    /\ ChildrenMounted
    /\ balloons # Null /\ balloonId \in DOMAIN Val(balloons)
    /\ viewActs > 0
    /\ viewActs' = viewActs - 1
    /\ selectedBalloonId' = Some(balloonId)
    /\ UNCHANGED <<stormFilters, showCoverage, traditionalStations, stationsInFlight,
                   filteredStorms, filters>>

\* the close button of the TelemetryPanel, rendered when selectedBalloon is set
handleCloseTelemetry ==
    /\ ChildrenMounted
    /\ selectedBalloonId # Null /\ balloons # Null
    /\ Val(selectedBalloonId) \in DOMAIN Val(balloons)
    /\ viewActs > 0
    /\ viewActs' = viewActs - 1
    /\ selectedBalloonId' = Null
    /\ UNCHANGED <<stormFilters, showCoverage, traditionalStations, stationsInFlight,
                   filteredStorms, filters>>

\* the effect on [showCoverage, traditionalStations]: the number of requests
\* it starts (fetchTraditionalStations())
stationsEffect(coverage, stations) ==
    IF coverage /\ stations = Null THEN 1 ELSE 0

\* a click on the CoverageToggle: setShowCoverage(prev => !prev), then the
\* stations effect
handleCoverageToggle ==
    /\ ChildrenMounted
    /\ viewActs > 0
    /\ viewActs' = viewActs - 1
    /\ showCoverage' = ~showCoverage
    /\ stationsInFlight' = stationsInFlight
                            + stationsEffect(showCoverage', traditionalStations)
    /\ UNCHANGED <<stormFilters, selectedBalloonId, traditionalStations, filteredStorms,
                   filters>>

\* response.ok: setTraditionalStations(data), then the stations effect
StationsOk(data) ==
    /\ ~crashed
    /\ stationsInFlight > 0
    /\ traditionalStations' = Some(data)
    /\ stationsInFlight' = stationsInFlight - 1
                            + stationsEffect(showCoverage, traditionalStations')
    /\ UNCHANGED <<stormFilters, selectedBalloonId, showCoverage, filteredStorms,
                   viewActs, filters>>

\* the response is not ok or the request is rejected: logged, nothing set
StationsFail ==
    /\ ~crashed
    /\ stationsInFlight > 0
    /\ stationsInFlight' = stationsInFlight - 1
    /\ UNCHANGED <<stormFilters, selectedBalloonId, showCoverage, traditionalStations,
                   filteredStorms, viewActs, filters>>

\* Storm features with their alert properties
Alert(id, severity, event, ring) ==
    [id |-> id, properties |-> [severity |-> severity, event |-> event],
     geometry |-> Polygon(<<ring>>)]

SHurricane == Alert("S1", Some("Extreme"), Some("Hurricane Warning"), Rect(0, 0, 100, 100))
SFlood == Alert("S2", Some("Minor"), Some("Flood Watch"), Rect(200, 200, 300, 300))
\* an alert without severity and without event type
SBare == Alert("S3", Null, Null, Rect(200, 200, 300, 300))
\* a severity and an event type outside the usual ones
SOdd == Alert("S4", Some("Catastrophic"), Some("Tornado Watch"), Rect(200, 200, 300, 300))

\* H1 has no properties at all
Alerts == {SHurricane, SFlood, SBare, SOdd, H1}

FilterEvents == {"Hurricane Warning", "Flood Watch"}

\* Filter records the StormFilter's handlers publish
FilterRecords ==
    {f \in [severity : [SeverityKeys -> BOOLEAN],
            eventType : UNION {[D -> BOOLEAN] : D \in SUBSET FilterEvents},
            showAll : BOOLEAN] : f = withShowAll(f)}

\* The App showing the map, for each storms list and each filter record
FilterInputs ==
    /\ balloons = Some([id \in {"b1"} |-> [id |-> id, trajectory |-> <<<<50, 50>>>>]])
    /\ storms \in {Some(s) : s \in SeqsUpTo(Alerts, MaxStorms)}
    /\ loading = FALSE
    /\ error = Null
    /\ monitoringBalloons = << >>
    /\ selectedTime = 100
    /\ inFlight = 0
    /\ effectPending = FALSE
    /\ crashed = FALSE
    /\ lastRound = "ok"
    /\ passLog = << >>
    /\ filteredBalloons = Null
    /\ stormFilters \in FilterRecords
    /\ filters = stormFilters
    /\ selectedBalloonId = Null
    /\ showCoverage = FALSE
    /\ traditionalStations = Null
    /\ stationsInFlight = 0
    /\ filteredStorms = Null
    /\ viewActs = 0

\* What the fetch rounds of the view specification receive: one balloon that
\* ends inside SHurricane, and two storms lists
ViewBalloons == [id \in {"b1"} |-> [id |-> id, trajectory |-> <<<<500, 500>>, <<50, 50>>>>]]
ViewStorms == {<<SHurricane, SFlood>>, <<SBare>>}
ViewIds == {"b1", "balloon_0"}
SliderStops == {0, 50}
\* the severity checkboxes the user clicks
ViewSeverities == {"Extreme", "Minor"}
StationsData == {"stations"}

\* The App and its children as they mount, with a user about to act
ViewMounted ==
    /\ stormFilters = InitialFilters
    /\ selectedBalloonId = Null
    /\ showCoverage = FALSE
    /\ traditionalStations = Null
    /\ stationsInFlight = 0
    /\ filteredStorms = Null
    /\ viewActs = MaxViewActs
    /\ filters = InitialFilters

-----------------------------------------------------------------------------
(* windborne dashboard App: the data effect, useEffect(..., [isLive,        *)
(* mapCenter]).  Time is counted in minutes.                                *)

RefreshMinutes == 5     \* setInterval(fetchData, 5 * 60 * 1000)

\* a variant of the cleanup that clears nothing
effectCleanupLeaks(activeTimers, held) == activeTimers

\* return () => { if (interval) clearInterval(interval) }
effectCleanup(activeTimers, held) == IF held THEN activeTimers - 1 ELSE activeTimers

\* if (isLive) { interval = setInterval(fetchData, ...) }
effectSetup(activeTimers, live) == IF live THEN activeTimers + 1 ELSE activeTimers

\* The effect body runs with isLive = live after the cleanup of the effect
\* instance before it, if there is one: fetchData() is called, the timer set.
EffectRuns(live, cleanedTimers) ==
    /\ fetchAge' = 0
    /\ fetchBy' = "effect"
    /\ timers' = effectSetup(cleanedTimers, live)
    /\ interval' = live
    /\ timerAge' = 0

\* The App mounts: first run of the effect
WbMount ==
    /\ ~mounted /\ wbUserActs > 0
    /\ wbUserActs' = wbUserActs - 1
    /\ mounted' = TRUE
    /\ EffectRuns(isLive, timers)
    /\ UNCHANGED isLive

\* onToggleLive: setIsLive(!isLive); the dependency changed, the effect re-runs
WbToggleLive ==
    /\ mounted /\ wbUserActs > 0
    /\ wbUserActs' = wbUserActs - 1
    /\ isLive' = ~isLive
    /\ EffectRuns(~isLive, effectCleanup(timers, interval))
    /\ UNCHANGED mounted

\* handleMapCenterChange / handleBalloonSelect: setMapCenter([...]), a new
\* array: the dependency changed, the effect re-runs
WbMapCenterChange ==
    /\ mounted /\ wbUserActs > 0
    /\ wbUserActs' = wbUserActs - 1
    /\ EffectRuns(isLive, effectCleanup(timers, interval))
    /\ UNCHANGED <<isLive, mounted>>

\* The App unmounts: the cleanup of the last effect instance runs
WbUnmount ==
    /\ mounted /\ wbUserActs > 0
    /\ wbUserActs' = wbUserActs - 1
    /\ mounted' = FALSE
    /\ timers' = effectCleanup(timers, interval)
    /\ interval' = FALSE
    /\ UNCHANGED <<isLive, timerAge, fetchAge, fetchBy>>

\* A timer fires 5 minutes after it was set or last fired: fetchData()
WbTimerFire ==
    /\ timers > 0
    /\ timerAge = RefreshMinutes
    /\ timerAge' = 0
    /\ fetchAge' = 0
    /\ fetchBy' = "timer"
    /\ UNCHANGED <<isLive, mounted, timers, interval, wbUserActs>>

\* A minute passes (an active timer fires when it is due, not later)
WbMinute ==
    /\ timers > 0 => timerAge < RefreshMinutes
    /\ timerAge' = IF timers > 0 THEN timerAge + 1 ELSE timerAge
    /\ fetchAge' = IF fetchAge <= RefreshMinutes THEN fetchAge + 1 ELSE fetchAge
    /\ UNCHANGED <<isLive, mounted, timers, interval, fetchBy, wbUserActs>>

\* Before the windborne dashboard is opened
WbClosed ==
    /\ isLive = TRUE
    /\ mounted = FALSE
    /\ timers = 0
    /\ interval = FALSE
    /\ timerAge = 0
    /\ fetchAge = 0
    /\ fetchBy = "none"
    /\ wbUserActs = MaxWbActs

-----------------------------------------------------------------------------
(* windborne dashboard App: fetchData rounds.  A round is started by each   *)
(* run of the data effect (mount, live toggle, map-centre change) and by    *)
(* each firing of the refresh interval; none is cancelled.                  *)

\* fetchData up to its first await: setIsLoading(true), setError(null),
\* setConnectionStatus('connecting'), then the two requests are sent
WbFetchStart ==
    /\ wbFetching + wbWeather < MaxWbInFlight
    /\ wbFetching' = wbFetching + 1
    /\ isLoading' = TRUE
    /\ wbError' = Null
    /\ connectionStatus' = "connecting"
    /\ UNCHANGED <<wbBalloons, wbStorms, wbWeather, wbEverOk, wbEverFailed>>

\* a variant of the success branch that stores the balloons alone
WbFetchOkBalloonsOnly(balloonsData, stormsData) ==
    /\ wbFetching > 0
    /\ wbFetching' = wbFetching - 1
    /\ wbWeather' = wbWeather + 1
    /\ wbBalloons' = Some(balloonsData)
    /\ connectionStatus' = "connected"
    /\ wbEverOk' = TRUE
    /\ UNCHANGED <<wbStorms, wbError, isLoading, wbEverFailed>>

\* both responses ok and parsed: setBalloons, setStorms,
\* setConnectionStatus('connected'); the round goes on to fetchWeatherData
WbFetchOk(balloonsData, stormsData) ==
    /\ wbFetching > 0
    /\ wbFetching' = wbFetching - 1
    /\ wbWeather' = wbWeather + 1
    /\ wbBalloons' = Some(balloonsData)
    /\ wbStorms' = Some(stormsData)
    /\ connectionStatus' = "connected"
    /\ wbEverOk' = TRUE
    /\ UNCHANGED <<wbError, isLoading, wbEverFailed>>

\* fetchWeatherData has returned (it catches its own errors): the finally
\* block, setIsLoading(false)
WbFetchDone ==
    /\ wbWeather > 0
    /\ wbWeather' = wbWeather - 1
    /\ isLoading' = FALSE
    /\ UNCHANGED <<wbBalloons, wbStorms, wbError, connectionStatus, wbFetching,
                   wbEverOk, wbEverFailed>>

\* a variant of the catch branch that drops the data held
WbFetchFailClears(message) ==
    /\ wbFetching > 0
    /\ wbFetching' = wbFetching - 1
    /\ wbBalloons' = Null
    /\ wbStorms' = Null
    /\ wbError' = Some(message)
    /\ connectionStatus' = "error"
    /\ isLoading' = FALSE
    /\ wbEverFailed' = TRUE
    /\ UNCHANGED <<wbWeather, wbEverOk>>

\* a request rejected, or either response not ok: the catch branch
\* (setError(err.message), setConnectionStatus('error')), then the finally
\* block
WbFetchFail(message) ==
    /\ wbFetching > 0
    /\ wbFetching' = wbFetching - 1
    /\ wbError' = Some(message)
    /\ connectionStatus' = "error"
    /\ isLoading' = FALSE
    /\ wbEverFailed' = TRUE
    /\ UNCHANGED <<wbBalloons, wbStorms, wbWeather, wbEverOk>>

\* getSystemStatus().status
getSystemStatus ==
    CASE isLoading -> "loading"
      [] wbError # Null -> "error"
      [] wbBalloons = Null \/ wbStorms = Null -> "warning"
      [] OTHER -> "operational"

\* the condition of the full-screen 'System Offline' page
SystemOffline == wbError # Null /\ wbBalloons = Null /\ wbStorms = Null

\* What the rounds receive, and the messages of the errors thrown
WbFeedBalloons == {[id \in {"w1"} |-> [id |-> id, trajectory |-> <<<<50, 50>>>>]],
                   [id \in {} |-> 0]}
WbFeedStorms == {<< >>, <<H1>>}
WbErrors == {"Balloons API error: 500", "Storms API error: 500", "Failed to fetch"}

\* The windborne App before it mounts
WbFetchIdle ==
    /\ wbBalloons = Null
    /\ wbStorms = Null
    /\ wbError = Null
    /\ isLoading = TRUE
    /\ connectionStatus = "connecting"
    /\ wbFetching = 0
    /\ wbWeather = 0
    /\ wbEverOk = FALSE
    /\ wbEverFailed = FALSE

\* The windborne App after mount: the effect has called fetchData()
WbFetchMounted ==
    /\ wbBalloons = Null
    /\ wbStorms = Null
    /\ wbError = Null
    /\ isLoading = TRUE
    /\ connectionStatus = "connecting"
    /\ wbFetching = 1
    /\ wbWeather = 0
    /\ wbEverOk = FALSE
    /\ wbEverFailed = FALSE

-----------------------------------------------------------------------------
(* Properties of the hurricane dashboard *)

Range(f) == {f[x] : x \in DOMAIN f}

\* A storm whose geometry turf.polygon accepts
WellFormed(storm) ==
    /\ storm.geometry # Null
    /\ ~turfPolygonThrows(Val(storm.geometry).coordinates)

\* The ids with at least one point within the threshold of at least one
\* well-formed hazard, stated without the pass's order of evaluation
Classify(b, stormList, thresholdKm) ==
    {id \in DOMAIN b :
        \E i \in 1..Len(b[id].trajectory), k \in 1..Len(stormList) :
            /\ WellFormed(stormList[k])
            /\ DistSq(b[id].trajectory[i], Val(stormList[k].geometry).coordinates[1])
                  <= thresholdKm * thresholdKm}

ExpectedMonitoring ==
    IF balloons = Null \/ storms = Null THEN {}
    ELSE Classify(Val(balloons), Val(storms), monitoringDistance)

\* C6: a round that fails after a round that succeeded leaves the balloons
\* and storms held before it in place.
C6_FailedRoundKeepsData ==
    [][(lastRound = "ok" /\ lastRound' = "failed")
          => (balloons' = balloons /\ storms' = storms)]_vars

\* C9: once the proximity pass has run on the current datasets, the
\* monitoring set is exactly the set of ids with a point inside the buffer
\* of a hazard (empty when a dataset is absent).
C9_MonitoringIsClassification ==
    ~effectPending => Range(monitoringBalloons) = ExpectedMonitoring

\* C10: the proximity pass completes whatever the hazards' geometry, and the
\* trajectories near a well-formed hazard are classified as monitoring.
C10_MalformedHazardSkipped ==
    ~effectPending =>
        /\ ~crashed
        /\ ExpectedMonitoring \subseteq Range(monitoringBalloons)

\* When the pass completes it computes the classification.
PassCompletedIsClassification ==
    (~effectPending /\ ~crashed) => Range(monitoringBalloons) = ExpectedMonitoring

\* The turf.buffer calls of the last pass made for storm k
BufferCallsOf(k) == {i \in DOMAIN passLog : passLog[i].op = "buffer" /\ passLog[i].storm = k}

\* C11: in a completed classification pass the buffer of each hazard is
\* computed once at most, whatever the number of trajectories.
C11_BufferOncePerHazard ==
    (~effectPending /\ ~crashed /\ storms # Null) =>
        \A k \in 1..Len(Val(storms)) : Cardinality(BufferCallsOf(k)) <= 1

\* The step in which a round completes by its catch branch
FailedRoundCompletes == inFlight' = inFlight - 1 /\ lastRound' = "failed"

\* 3 balloons of 24 points each and 2 storm polygons
IsDemoData(b, stormList) ==
    /\ Cardinality(DOMAIN b) = 3
    /\ \A id \in DOMAIN b : b[id].id = id /\ Len(b[id].trajectory) = 24
    /\ Len(stormList) = 2
    /\ \A k \in 1..2 : /\ stormList[k].geometry # Null
                        /\ Val(stormList[k].geometry).type = "Polygon"
                        /\ ~turfPolygonThrows(Val(stormList[k].geometry).coordinates)

\* C16: when a round fails, then as it completes balloons and storms are
\* demo datasets (3 balloons of 24 points, 2 storm polygons), loading is
\* false and error is null.
C16_DemoFallback ==
    [][FailedRoundCompletes =>
          /\ balloons' # Null /\ storms' # Null
          /\ IsDemoData(Val(balloons'), Val(storms'))
          /\ loading' = FALSE
          /\ error' = Null]_vars

\* a round failed in the place of live data
C16_Witness ==
    /\ lastRound = "failed" /\ effectPending
    /\ balloons # Null /\ storms # Null
    /\ IsDemoData(Val(balloons), Val(storms))
    /\ ~loading /\ error = Null
    /\ monitoringBalloons = <<"b1">>

\* C18: in a pass, a point found inside a hazard's buffer is the last call
\* made for its trajectory: no further point is tested against that hazard
\* and no further hazard is buffered or tested for that trajectory.
C18_ShortCircuit ==
    ~effectPending =>
        \A i, j \in DOMAIN passLog :
            (passLog[i].op = "test" /\ passLog[i].hit /\ i < j)
                => passLog[j].balloon # passLog[i].balloon

\* b1's first point lies in the buffer of the first of two hazards: one
\* buffer, one test, while b2 is tested against both hazards
C18_Witness ==
    /\ ~effectPending /\ ~crashed
    /\ storms = Some(<<H1, H2>>)
    /\ balloons # Null /\ DOMAIN Val(balloons) = {"b1", "b2"}
    /\ Val(balloons)["b1"].trajectory = <<<<50, 50>>, <<200, 50>>>>
    /\ Val(balloons)["b2"].trajectory = <<<<171, 171>>>>
    /\ passLog = <<BufferCall("b1", 1), PointTest("b1", 1, 1, TRUE),
                   BufferCall("b2", 1), PointTest("b2", 1, 1, FALSE),
                   BufferCall("b2", 2), PointTest("b2", 2, 1, TRUE)>>

\* C19: for every balloon with a trajectory of n > 0 points, the displayed
\* trajectory is the prefix of length max(1, floor(n*t/100)) when t < 100
\* and the whole when t = 100; it is not empty and the ids are the same.
C19_TimeFilter ==
    (filteredBalloons # Null /\ balloons # Null) =>
        LET shown == Val(filteredBalloons) IN
        /\ shown # Null
        /\ DOMAIN Val(shown) = DOMAIN Val(balloons)
        /\ \A id \in DOMAIN Val(balloons) :
            LET trajectory == Val(balloons)[id].trajectory
                n == Len(trajectory)
            IN  n > 0 =>
                /\ Val(shown)[id].trajectory # << >>
                /\ Val(shown)[id].trajectory =
                      SubSeq(trajectory, 1,
                             IF selectedTime = 100 THEN n
                             ELSE Max2(1, (n * selectedTime) \div 100))

\* The displayed trajectory is a prefix, not empty, and one point short of
\* max(1, floor(n*t/100)) at most.
TimeFilterWithinOnePoint ==
    (filteredBalloons # Null /\ balloons # Null) =>
        LET shown == Val(filteredBalloons) IN
        /\ shown # Null
        /\ DOMAIN Val(shown) = DOMAIN Val(balloons)
        /\ \A id \in DOMAIN Val(balloons) :
            LET trajectory == Val(balloons)[id].trajectory
                n == Len(trajectory)
                m == Len(Val(shown)[id].trajectory)
                exact == IF selectedTime = 100 THEN n
                         ELSE Max2(1, (n * selectedTime) \div 100)
            IN  n > 0 =>
                /\ m >= 1
                /\ Val(shown)[id].trajectory = SubSeq(trajectory, 1, m)
                /\ m \in {exact - 1, exact}

\* The App renders the map and the panels (neither the loading screen nor
\* the error screen, and the tree is mounted)
Presented == ~loading /\ ~crashed /\ error = Null

\* C12: the monitoring set presented with the trajectories and the hazards
\* is the classification of those trajectories and hazards.
C12_MonitoringNeverStale ==
    Presented => Range(monitoringBalloons) = ExpectedMonitoring

\* C13: with "B1" ending at lat 29.0, lon -90.0 and the one hazard covering
\* lat 28..30, lon -91..-89, the pass completes with the monitoring set
\* exactly {"B1"}.
C13_ScenarioHit ==
    (~effectPending /\ storms = Some(<<HScenarioHit>>)) =>
        (~crashed /\ monitoringBalloons = <<"B1">>)

\* the hit comes from the last point: the first two lie outside the buffer
C13_Witness ==
    /\ ~effectPending /\ storms = Some(<<HScenarioHit>>)
    /\ monitoringBalloons = <<"B1">>
    /\ Val(balloons)["B1"].trajectory[1] = <<-200, 200>>
    /\ Val(balloons)["B1"].trajectory[2] = <<200, 450>>

\* C14: with the same trajectories and the one hazard covering lat 10..12,
\* lon 100..102, the pass completes with an empty monitoring set.
C14_ScenarioMiss ==
    (~effectPending /\ storms = Some(<<HScenarioMiss>>)) =>
        (~crashed /\ monitoringBalloons = << >>)

C14_Witness ==
    /\ ~effectPending /\ storms = Some(<<HScenarioMiss>>)
    /\ monitoringBalloons = << >>
    /\ Val(balloons)["B1"].trajectory = <<<<190, 190>>, <<200, 210>>, ScenarioEnd>>
    /\ Cardinality({i \in DOMAIN passLog : passLog[i].op = "test"}) = 3

\* The squared distances from the points of balloon id to the hazards
PointDistances(id) ==
    {DistSq(Val(balloons)[id].trajectory[i], Val(Val(storms)[k].geometry).coordinates[1]) :
        i \in 1..Len(Val(balloons)[id].trajectory),
        k \in {n \in 1..Len(Val(storms)) : WellFormed(Val(storms)[n])}}

\* C15: after a completed pass, a balloon with a point at exactly the
\* threshold from a hazard is in the monitoring set, and a balloon whose
\* points are all further than the threshold from every hazard is not.
C15_InclusiveBoundary ==
    (~effectPending /\ ~crashed /\ balloons # Null /\ storms # Null) =>
        \A id \in DOMAIN Val(balloons) :
            /\ (monitoringDistance * monitoringDistance \in PointDistances(id))
                    => id \in Range(monitoringBalloons)
            /\ (\A d \in PointDistances(id) : d > monitoringDistance * monitoringDistance)
                    => id \notin Range(monitoringBalloons)

\* Beside an edge of the hazard the boundary of the buffer is inclusive, and
\* nowhere does the pass flag a balloon further than the threshold.
BoundaryBesideEdge ==
    (~effectPending /\ ~crashed /\ balloons # Null /\ storms # Null) =>
        \A id \in DOMAIN Val(balloons) :
            /\ (\E i \in 1..Len(Val(balloons)[id].trajectory), k \in 1..Len(Val(storms)) :
                    LET pt == Val(balloons)[id].trajectory[i]
                        ring == Val(Val(storms)[k].geometry).coordinates[1]
                    IN  /\ OffsetX(pt, ring) = 0 \/ OffsetY(pt, ring) = 0
                        /\ DistSq(pt, ring) = monitoringDistance * monitoringDistance)
                    => id \in Range(monitoringBalloons)
            /\ (\A d \in PointDistances(id) : d > monitoringDistance * monitoringDistance)
                    => id \notin Range(monitoringBalloons)

-----------------------------------------------------------------------------
(* Backend aggregation cache: fan-out fetcher and TTL cache *)

Keys == {"trajectories", "hazards"}
Sources == {"S1", "S2"}
Callers == 1..NumCallers

\* Time to live per key, in ticks of 5 minutes
TTLTrajectories == 2
TTLHazards == 1
TTL(k) == IF k = "trajectories" THEN TTLTrajectories ELSE TTLHazards

\* A canonical record: the trajectory or hazard id, when it was observed,
\* and its content (the point set or boundary, named by where it came from)
Record(id, observedAt, content) ==
    [id |-> id, observedAt |-> observedAt, content |-> content]

\* What a source may return on success
Payloads(k, s) ==
    IF k = "trajectories"
    THEN {{Record("B1", t, s)} : t \in {1, 2}}
            \cup (IF s = "S2" THEN {{Record("B2", 1, s)}} ELSE {})
    ELSE IF s = "S1" THEN {{Record("A1", 0, s)}}
         ELSE {{Record("A1", 0, s), Record("A2", 0, s)}}

NoTask == [status |-> "none", payload |-> {}]
PendingTask == [status |-> "pending", payload |-> {}]
\* What a get returns: a snapshot or CacheMissError; via tells how it was
\* served ("hit": fresh entry, "refresh": new snapshot, "stale": prior
\* snapshot after a failed refresh, "miss": failed refresh and no entry)
NoResult == [status |-> "none", snapshot |-> Null, via |-> "none"]
Ok(snapshot, via) == [status |-> "ok", snapshot |-> Some(snapshot), via |-> via]
CacheMissError == [status |-> "CacheMissError", snapshot |-> Null, via |-> "miss"]

Fresh == entry # Null /\ now < Val(entry).expiresAt

\* (variant for checking: the record arriving last replaces the one held)
MergeRecordLastArrival(k, acc, r) ==
    {e \in acc : e.id # r.id} \cup {r}

\* Merge one record into the records merged so far: de-duplication by id;
\* for trajectories the later observedAt wins
MergeRecord(k, acc, r) ==
    IF \E e \in acc : e.id = r.id
    THEN IF k = "trajectories"
            /\ \A e \in acc : e.id = r.id => r.observedAt >= e.observedAt
         THEN {e \in acc : e.id # r.id} \cup {r}
         ELSE acc
    ELSE acc \cup {r}

RECURSIVE MergeAll(_, _, _)
MergeAll(k, acc, payload) ==
    IF payload = {} THEN acc
    ELSE LET r == CHOOSE x \in payload : TRUE
         IN  MergeAll(k, MergeRecord(k, acc, r), payload \ {r})

\* sourceErrors of the round led by c: source -> failure reason
SourceErrors(c) ==
    [s \in {x \in Sources : tasks[c][x].status \in {"failed", "abandoned"}} |->
        IF tasks[c][s].status = "failed" THEN "AdapterError" ELSE "deadline"]

Succeeded(c) == {s \in Sources : tasks[c][s].status = "ok"}
Pending(c) == {s \in Sources : tasks[c][s].status = "pending"}

\* No caller has a result in hand: a caller handed its result resumes before
\* the event loop runs anything else
Settled == \A c \in Callers : pc[c] # "done"

\* Callers whose get is served by the refresh in flight
Waiting == {c \in Callers : pc[c] \in {"fetching", "awaiting"}}

\* (variant for checking: a caller that finds no fresh entry starts a
\* refresh of its own even when one is in flight)
GetNoCoalesce(c) ==
    /\ Settled
    /\ pc[c] = "idle"
    /\ IF Fresh
       THEN /\ pc' = [pc EXCEPT ![c] = "done"]
            /\ result' = [result EXCEPT ![c] = Ok(Val(entry).snapshot, "hit")]
            /\ UNCHANGED <<refreshing, tasks, merged>>
       ELSE /\ pc' = [pc EXCEPT ![c] = "fetching"]
            /\ refreshing' = TRUE
            /\ tasks' = [tasks EXCEPT ![c] = [s \in Sources |-> PendingTask]]
            /\ merged' = [merged EXCEPT ![c] = {}]
            /\ UNCHANGED result
    /\ UNCHANGED <<dataset, now, entry, abandoned>>

\* (variant for checking: freshness is not consulted)
GetAlwaysRefresh(c) ==
    /\ Settled
    /\ pc[c] = "idle"
    /\ IF refreshing
       THEN /\ pc' = [pc EXCEPT ![c] = "awaiting"]
            /\ UNCHANGED <<result, refreshing, tasks, merged>>
       ELSE /\ pc' = [pc EXCEPT ![c] = "fetching"]
            /\ refreshing' = TRUE
            /\ tasks' = [tasks EXCEPT ![c] = [s \in Sources |-> PendingTask]]
            /\ merged' = [merged EXCEPT ![c] = {}]
            /\ UNCHANGED result
    /\ UNCHANGED <<dataset, now, entry, abandoned>>

\* get(dataset), under the key's lock: a fresh entry is returned at once;
\* else the caller awaits the refresh in flight, or starts one (one
\* concurrent call per source)
Get(c) ==
    /\ Settled
    /\ pc[c] = "idle"
    /\ IF Fresh
       THEN /\ pc' = [pc EXCEPT ![c] = "done"]
            /\ result' = [result EXCEPT ![c] = Ok(Val(entry).snapshot, "hit")]
            /\ UNCHANGED <<refreshing, tasks, merged>>
       ELSE IF refreshing
       THEN /\ pc' = [pc EXCEPT ![c] = "awaiting"]
            /\ UNCHANGED <<result, refreshing, tasks, merged>>
       ELSE /\ pc' = [pc EXCEPT ![c] = "fetching"]
            /\ refreshing' = TRUE
            /\ tasks' = [tasks EXCEPT ![c] = [s \in Sources |-> PendingTask]]
            /\ merged' = [merged EXCEPT ![c] = {}]
            /\ UNCHANGED result
    /\ UNCHANGED <<dataset, now, entry, abandoned>>

\* A source task completes with records: they are merged
TaskOk(c, s, payload) ==
    /\ Settled
    /\ pc[c] = "fetching"
    /\ tasks[c][s].status = "pending"
    /\ tasks' = [tasks EXCEPT ![c][s] = [status |-> "ok", payload |-> payload]]
    /\ merged' = [merged EXCEPT ![c] = MergeAll(dataset, merged[c], payload)]
    /\ UNCHANGED <<dataset, now, entry, refreshing, pc, result, abandoned>>

\* A source task fails (timeout, bad status, unparseable body)
TaskFail(c, s) ==
    /\ Settled
    /\ pc[c] = "fetching"
    /\ tasks[c][s].status = "pending"
    /\ tasks' = [tasks EXCEPT ![c][s] = [status |-> "failed", payload |-> {}]]
    /\ UNCHANGED <<dataset, now, entry, refreshing, pc, result, merged, abandoned>>

\* The overall deadline elapses: the tasks still pending are abandoned
Deadline(c) ==
    /\ Settled
    /\ pc[c] = "fetching"
    /\ Pending(c) # {}
    /\ tasks' = [tasks EXCEPT ![c] =
                    [s \in Sources |->
                        IF tasks[c][s].status = "pending"
                        THEN [status |-> "abandoned", payload |-> {}]
                        ELSE tasks[c][s]]]
    /\ abandoned' = abandoned \cup Pending(c)
    /\ UNCHANGED <<dataset, now, entry, refreshing, pc, result, merged>>

\* (variant for checking: the late result is written into the stored snapshot)
LateArrivalMerges(s, payload) ==
    /\ Settled
    /\ s \in abandoned
    /\ abandoned' = abandoned \ {s}
    /\ entry' = IF entry = Null THEN entry
                ELSE Some([Val(entry) EXCEPT
                            !.snapshot.data = MergeAll(dataset, @, payload)])
    /\ UNCHANGED <<dataset, now, refreshing, pc, result, tasks, merged>>

\* An abandoned task completes after the deadline: its result is discarded
LateArrival(s, payload) ==
    /\ Settled
    /\ s \in abandoned
    /\ abandoned' = abandoned \ {s}
    /\ UNCHANGED <<dataset, now, entry, refreshing, pc, result, tasks, merged>>

\* (variant for checking: an aggregate failure evicts the entry and raises)
RefreshOutcomeEvicts(c) ==
    IF Succeeded(c) # {}
    THEN LET snapshot == [data |-> merged[c], fetchedAt |-> now,
                          sourceErrors |-> SourceErrors(c)]
         IN  [entry |-> Some([snapshot |-> snapshot, expiresAt |-> now + TTL(dataset)]),
              result |-> Ok(snapshot, "refresh")]
    ELSE [entry |-> Null, result |-> CacheMissError]

\* (variant for checking: an aggregate failure stores an empty snapshot)
RefreshOutcomeStoresFailure(c) ==
    LET snapshot == [data |-> merged[c], fetchedAt |-> now,
                     sourceErrors |-> SourceErrors(c)]
    IN  IF Succeeded(c) # {}
        THEN [entry |-> Some([snapshot |-> snapshot, expiresAt |-> now + TTL(dataset)]),
              result |-> Ok(snapshot, "refresh")]
        ELSE [entry |-> IF entry # Null THEN entry
                        ELSE Some([snapshot |-> snapshot,
                                   expiresAt |-> now + TTL(dataset)]),
              result |-> IF entry # Null THEN Ok(Val(entry).snapshot, "stale")
                         ELSE CacheMissError]

\* (variant for checking: a round with any failing source counts as failed)
RefreshOutcomeAllOrNothing(c) ==
    IF Succeeded(c) = Sources
    THEN LET snapshot == [data |-> merged[c], fetchedAt |-> now,
                          sourceErrors |-> SourceErrors(c)]
         IN  [entry |-> Some([snapshot |-> snapshot, expiresAt |-> now + TTL(dataset)]),
              result |-> Ok(snapshot, "refresh")]
    ELSE [entry |-> entry,
          result |-> IF entry # Null THEN Ok(Val(entry).snapshot, "stale")
                     ELSE CacheMissError]

\* What the callers served by the refresh led by c receive, and the entry
\* after it: on success the new snapshot, stored wholesale; on aggregate
\* failure the prior snapshot if there is one, else CacheMissError
RefreshOutcome(c) ==
    IF Succeeded(c) # {}
    THEN LET snapshot == [data |-> merged[c], fetchedAt |-> now,
                          sourceErrors |-> SourceErrors(c)]
         IN  [entry |-> Some([snapshot |-> snapshot, expiresAt |-> now + TTL(dataset)]),
              result |-> Ok(snapshot, "refresh")]
    ELSE [entry |-> entry,
          result |-> IF entry # Null THEN Ok(Val(entry).snapshot, "stale")
                     ELSE CacheMissError]

\* The fan-out round of c is over (every task completed, or the deadline
\* passed): under the key's lock the entry is replaced or kept, the flag is
\* cleared and every caller awaiting the refresh receives its result
FinishRefresh(c) ==
    /\ Settled
    /\ pc[c] = "fetching"
    /\ Pending(c) = {}
    /\ LET out == RefreshOutcome(c)
       IN  /\ entry' = out.entry
           /\ pc' = [x \in Callers |-> IF x \in Waiting THEN "done" ELSE pc[x]]
           /\ result' = [x \in Callers |->
                            IF x \in Waiting THEN out.result ELSE result[x]]
    /\ refreshing' = FALSE
    /\ tasks' = [tasks EXCEPT ![c] = [s \in Sources |-> NoTask]]
    /\ merged' = [merged EXCEPT ![c] = {}]
    /\ UNCHANGED <<dataset, now, abandoned>>

\* The caller takes its result; it may call again
Return(c) ==
    /\ pc[c] = "done"
    /\ pc' = [pc EXCEPT ![c] = "idle"]
    /\ result' = [result EXCEPT ![c] = NoResult]
    /\ UNCHANGED <<dataset, now, entry, refreshing, tasks, merged, abandoned>>

Tick ==
    /\ Settled
    /\ now < MaxTime
    /\ now' = now + 1
    /\ UNCHANGED <<dataset, entry, refreshing, pc, result, tasks, merged, abandoned>>

\* A cache instance with no entry and no caller
CacheCold ==
    /\ now = 0
    /\ entry = Null
    /\ refreshing = FALSE
    /\ pc = [c \in Callers |-> "idle"]
    /\ result = [c \in Callers |-> NoResult]
    /\ tasks = [c \in Callers |-> [s \in Sources |-> NoTask]]
    /\ merged = [c \in Callers |-> {}]
    /\ abandoned = {}

CacheIdle == dataset = "trajectories" /\ CacheCold

-----------------------------------------------------------------------------
(* Properties of the aggregation cache *)

Leaders == {c \in Callers : pc[c] = "fetching"}

\* The step in which the refresh led by c finishes
Finishes(c) == pc[c] = "fetching" /\ pc'[c] = "done"

Failing(c) == {s \in Sources : tasks[c][s].status \in {"failed", "abandoned"}}

\* C1: callers that find no fresh entry share one refresh: a Fetcher
\* invocation starts only when none is in flight, every waiting caller is
\* served by exactly one fan-out round, and when it finishes all of them
\* receive the same result.
C1_StampedeCoalescing ==
    [][/\ \A c \in Callers :
            (pc[c] = "idle" /\ pc'[c] = "fetching") => (~refreshing /\ Leaders = {})
       /\ (Waiting' # {} => Cardinality(Leaders') = 1)
       /\ \A c \in Callers : Finishes(c) =>
            \A w1, w2 \in Waiting :
                /\ pc'[w1] = "done"
                /\ result'[w1].status # "none"
                /\ result'[w1] = result'[w2]]_vars

C1_Witness ==
    \E c1, c2 \in Callers :
        /\ pc[c1] = "fetching" /\ pc[c2] = "awaiting"
        /\ entry # Null /\ ~Fresh

\* C2: a get that finds a fresh entry starts no fetch, returns the entry's
\* snapshot and leaves the entry as it was; and a fresh entry is not
\* replaced and has no refresh in flight, so two gets within one TTL window
\* return the same snapshot.
C2_CacheFreshness ==
    [][/\ \A c \in Callers :
            (pc[c] = "idle" /\ pc'[c] # "idle" /\ Fresh) =>
                /\ pc'[c] = "done"
                /\ result'[c].status = "ok"
                /\ result'[c].snapshot = Some(Val(entry).snapshot)
                /\ entry' = entry
                /\ refreshing' = refreshing /\ tasks' = tasks
       /\ (Fresh => (entry' = entry /\ ~refreshing))]_vars

C2_Witness ==
    \E c \in Callers :
        /\ Fresh
        /\ result[c].via = "hit"
        /\ result[c].snapshot = Some(Val(entry).snapshot)
        /\ Val(entry).snapshot.fetchedAt < now

\* C3: when a refresh fails with every source failed and an entry exists,
\* every caller awaiting it receives the prior snapshot, none receives an
\* error, and the entry is not modified.
C3_StaleWhileError ==
    [][\A c \in Callers :
        (Finishes(c) /\ Succeeded(c) = {} /\ entry # Null) =>
            /\ entry' = entry
            /\ \A w \in Waiting :
                /\ result'[w].status = "ok"
                /\ result'[w].snapshot = Some(Val(entry).snapshot)]_vars

C3_Witness ==
    \E c1, c2 \in Callers :
        /\ c1 # c2 /\ entry # Null
        /\ result[c1].via = "stale" /\ result[c2].via = "stale"
        /\ result[c1].snapshot = Some(Val(entry).snapshot)

\* C4: when a refresh fails with every source failed and there is no entry,
\* every caller awaiting it receives CacheMissError and there is still no
\* entry.
C4_ColdTotalFailure ==
    [][\A c \in Callers :
        (Finishes(c) /\ Succeeded(c) = {} /\ entry = Null) =>
            /\ entry' = Null
            /\ \A w \in Waiting : result'[w] = CacheMissError]_vars

C4_Witness ==
    \E c \in Callers : result[c].status = "CacheMissError" /\ entry = Null

\* C5: a round with a succeeding and a failing source publishes a snapshot
\* that holds the records of every succeeding source (a record gives way
\* only to one of the same id from another succeeding source), names every
\* failing source in sourceErrors, and replaces the entry.
C5_PartialSuccess ==
    [][\A c \in Callers :
        (Finishes(c) /\ Succeeded(c) # {} /\ Failing(c) # {}) =>
            /\ entry' # Null
            /\ Val(entry').snapshot.fetchedAt = now
            /\ DOMAIN Val(entry').snapshot.sourceErrors = Failing(c)
            /\ \A s \in Succeeded(c) : \A r \in tasks[c][s].payload :
                \E m \in Val(entry').snapshot.data :
                    /\ m.id = r.id
                    /\ \/ m = r
                       \/ \E s2 \in Succeeded(c) \ {s} : m \in tasks[c][s2].payload
            /\ \A m \in Val(entry').snapshot.data :
                \E s \in Succeeded(c) : m \in tasks[c][s].payload
            /\ \A w \in Waiting : result'[w].snapshot = Some(Val(entry').snapshot)]_vars

C5_Witness ==
    /\ entry # Null
    /\ Val(entry).snapshot.data # {}
    /\ DOMAIN Val(entry).snapshot.sourceErrors # {}
    /\ \E c \in Callers : result[c].via = "refresh"
                            /\ result[c].snapshot = Some(Val(entry).snapshot)

\* C7: a task still pending at the deadline is named in the sourceErrors of
\* the snapshot its round publishes, none of its records is in that
\* snapshot, and its late completion changes neither the stored entry, nor
\* a result already returned, nor a round in progress.
C7_DeadlineAbandonment ==
    [][/\ \A c \in Callers : \A s \in Sources :
            (Finishes(c) /\ tasks[c][s].status = "abandoned" /\ Succeeded(c) # {}) =>
                /\ s \in DOMAIN Val(entry').snapshot.sourceErrors
                /\ \A m \in Val(entry').snapshot.data : m.content # s
       /\ (\E s \in abandoned : s \notin abandoned') =>
                (entry' = entry /\ result' = result /\ merged' = merged)]_vars

C7_Witness ==
    \E s \in abandoned :
        /\ entry # Null
        /\ s \in DOMAIN Val(entry).snapshot.sourceErrors
        /\ Val(entry).snapshot.sourceErrors[s] = "deadline"
        /\ Val(entry).snapshot.data # {}

\* C8: when two sources of a trajectory round report the same id with
\* different observedAt, the published snapshot holds exactly one record of
\* that id, the one with the later observedAt, whichever source completed
\* first.
C8_DedupByRecency ==
    [][\A c \in Callers :
        (Finishes(c) /\ dataset = "trajectories") =>
            \A s1, s2 \in Succeeded(c) :
                \A r1 \in tasks[c][s1].payload, r2 \in tasks[c][s2].payload :
                    (r1.id = r2.id /\ r1.observedAt > r2.observedAt) =>
                        {m \in Val(entry').snapshot.data : m.id = r1.id} = {r1}]_vars

C8_Witness ==
    /\ dataset = "trajectories"
    /\ \E c \in Callers :
        /\ pc[c] = "fetching"
        /\ tasks[c]["S1"].status = "ok" /\ tasks[c]["S2"].status = "ok"
        /\ \E r1 \in tasks[c]["S1"].payload, r2 \in tasks[c]["S2"].payload :
            r1.id = r2.id /\ r1.observedAt > r2.observedAt /\ merged[c] = {r1}

-----------------------------------------------------------------------------
(* Properties of the TimeSlider *)

\* C20: a tick below 100 raises currentTime by exactly 1 and playback goes
\* on; the tick at 100 leaves it at 100 and stops playback; currentTime
\* stays within 0..100; pressing play at 100 restarts from 0; the slider
\* and reset stop playback; and playback left to itself ends at 100,
\* stopped.
C20_Playback ==
    /\ [](currentTime \in 0..100)
    /\ [][/\ lastAct' = "tick" =>
                IF currentTime < 100
                THEN currentTime' = currentTime + 1 /\ isPlaying'
                ELSE currentTime' = 100 /\ ~isPlaying'
          /\ (lastAct' = "toggle" /\ ~isPlaying) =>
                /\ isPlaying'
                /\ currentTime' = IF currentTime = 100 THEN 0 ELSE currentTime
          /\ lastAct' \in {"slider", "reset"} => ~isPlaying'
          /\ lastAct' = "reset" => currentTime' = 100]_sliderVars
    /\ (isPlaying /\ userActs = 0) ~> (currentTime = 100 /\ ~isPlaying)

\* playback started at 100, hence from 0, has run to the end
C20_Witness ==
    /\ currentTime = 100 /\ ~isPlaying
    /\ lastAct = "tick"
    /\ userActs = MaxUserActs - 1
    /\ selectedTime = 100

-----------------------------------------------------------------------------
(* Properties of the windborne dashboard *)

\* the user has made the last toggle, map move or (un)mount
WbUserDone == wbUserActs = 0

\* C17: mounted with live updates on, exactly one timer is active and the
\* last fetchData started 5 minutes ago at most; with live updates off, or
\* unmounted, no timer is active; never are two timers active; and left
\* alone with live updates on, the timer starts fetchData again and again.
C17_AutoRefresh ==
    /\ [](/\ timers \in {0, 1}
          /\ timers = 1 <=> (mounted /\ isLive)
          /\ (mounted /\ isLive) => fetchAge <= RefreshMinutes)
    /\ []<>(~(WbUserDone /\ mounted /\ isLive) \/ (fetchAge = 0 /\ fetchBy = "timer"))
    /\ []<>(~(WbUserDone /\ mounted /\ isLive) \/ fetchAge > 0)

\* the timer set by the last toggle (off, then on again) has fired
C17_Witness ==
    /\ WbUserDone /\ mounted /\ isLive
    /\ timers = 1 /\ interval
    /\ fetchAge = 0 /\ timerAge = 0 /\ fetchBy = "timer"

-----------------------------------------------------------------------------
(* Properties of the view state: storm filter, selection, coverage *)

\* C23: the App never holds an error: after any sequence of successful and
\* failed rounds error is null, so the 'Connection Failed' screen (rendered
\* when error is set) never shows.
C23_ErrorAlwaysNull == error = Null

\* A round has failed and the App shows the map with the demo data, while
\* another round is in flight
C23_Witness ==
    /\ lastRound = "failed" /\ ~loading /\ error = Null
    /\ IsDemoData(Val(balloons), Val(storms)) /\ inFlight = 1

\* showAll agrees with the flags of a filter record
showAllAgrees(f) == f.showAll <=> (everyFlag(f.severity) /\ everyFlag(f.eventType))

\* C21: in every state of the displayed StormFilter, showAll is true if and
\* only if every severity flag and every event-type flag is true.
C21_ShowAllIffAllFlags == ChildrenMounted => showAllAgrees(filters)

\* Each handler of the StormFilter leaves showAll in agreement with the flags
\* (a click is a step that lowers viewActs and changes filters).
HandlersAgree ==
    [][(viewActs' < viewActs /\ filters' # filters) => showAllAgrees(filters')]_vars

\* The view state the user has set
viewState == <<selectedTime, stormFilters, selectedBalloonId, showCoverage>>

\* C24: the steps of a fetch round (its start, its completion by either
\* branch) leave selectedTime, stormFilters, selectedBalloonId and
\* showCoverage as they were.
C24_RefreshKeepsView ==
    [][(inFlight' # inFlight) => viewState' = viewState]_vars

\* A fetch round leaves the App's stormFilters, selectedBalloonId and
\* showCoverage as they were, and sets selectedTime to 100 or leaves it.
RefreshKeepsOrResetsTime ==
    [][(inFlight' # inFlight) =>
          /\ <<stormFilters, selectedBalloonId, showCoverage>>'
               = <<stormFilters, selectedBalloonId, showCoverage>>
          /\ selectedTime' \in {selectedTime, 100}]_vars

\* C25: whenever the StormFilter is displayed, the storms its checkboxes
\* select are the storms the App passes to the map.
C25_FilterAgreement ==
    ChildrenMounted =>
        getFilteredStorms(storms, filters) = getFilteredStorms(storms, stormFilters)

\* Each click on the StormFilter leaves its checkboxes and the App's
\* stormFilters equal.
HandlersPublish ==
    [][(viewActs' < viewActs /\ filters' # filters) => stormFilters' = filters']_vars

\* A traditional-stations request is started only with coverage on and no
\* stations held; none is started once stations are stored.
StationsRequestsGuarded ==
    [][(stationsInFlight' > stationsInFlight) =>
          (showCoverage' /\ traditionalStations = Null /\ traditionalStations' = Null)]_vars

\* C29: at no time are two traditional-stations requests in flight; a
\* request is started only with coverage on and no stations held, and none
\* once stations have been stored.
C29_StationsCoalesced ==
    /\ [](stationsInFlight <= 1)
    /\ StationsRequestsGuarded

\* C30: a step that changes selectedTime, stormFilters, selectedBalloonId or
\* showCoverage leaves monitoringBalloons as it is, and the monitoring set
\* shown is the classification of the fetched balloons and storms, whatever
\* the slider and the filters hide.
C30_MonitoringFrame ==
    /\ [][viewState' # viewState => monitoringBalloons' = monitoringBalloons]_vars
    /\ [](ChildrenMounted => Range(monitoringBalloons) = ExpectedMonitoring)

\* "b1" is monitored for its last point inside S1; the slider at 50 cuts that
\* point off the displayed trajectory, the filter hides S1, "b1" is selected
\* and coverage is on.
C30_Witness ==
    /\ ChildrenMounted
    /\ monitoringBalloons = <<"b1">>
    /\ storms = Some(<<SHurricane, SFlood>>)
    /\ selectedTime = 50
    /\ Val(getFilteredBalloons(balloons, selectedTime))["b1"].trajectory = <<<<500, 500>>>>
    /\ getFilteredStorms(storms, stormFilters) = Some(<<SFlood>>)
    /\ selectedBalloonId = Some("b1")
    /\ showCoverage

\* A storm is displayed under the App's stormFilters: the flag of its
\* severity ('Unknown' when it has none) is true and, when it has an event
\* type, the flag of that event type is true; a missing flag counts as false.
Displayed(storm) ==
    LET props == IF "properties" \in DOMAIN storm THEN storm.properties
                 ELSE [severity |-> Null, event |-> Null]
        severity == IF props.severity = Null THEN "Unknown" ELSE Val(props.severity)
    IN  /\ severity \in DOMAIN stormFilters.severity
        /\ stormFilters.severity[severity]
        /\ props.event # Null =>
              /\ Val(props.event) \in DOMAIN stormFilters.eventType
              /\ stormFilters.eventType[Val(props.event)]

\* C22: with showAll true the storms list itself is displayed; otherwise the
\* displayed list is the storms list, in order, without the storms that fail
\* the severity test or the event-type test.
C22_StormFiltering ==
    (filteredStorms # Null /\ storms # Null) =>
        IF stormFilters.showAll
        THEN Val(filteredStorms) = storms
        ELSE Val(filteredStorms) = Some(SelectSeq(Val(storms), LAMBDA st : Displayed(st)))

\* showAll is off, the flags of 'Extreme' and 'Unknown' are on and 'Hurricane
\* Warning' has no flag: the hurricane alert is hidden, the alert without
\* severity and event type is displayed.
C22_Witness ==
    /\ storms = Some(<<SHurricane, SBare>>)
    /\ ~stormFilters.showAll
    /\ stormFilters.severity["Extreme"] /\ stormFilters.severity["Unknown"]
    /\ "Hurricane Warning" \notin DOMAIN stormFilters.eventType
    /\ filteredStorms = Some(Some(<<SBare>>))

-----------------------------------------------------------------------------
(* Properties of the windborne dashboard's fetch rounds *)

\* a round ends in the catch branch: it leaves the rounds awaiting their
\* responses without going on to fetchWeatherData
WbRoundFails == wbFetching' < wbFetching /\ wbWeather' = wbWeather

WbInFlight == wbFetching + wbWeather

\* C26: a round that fails leaves balloons and storms as they were and sets
\* error and connectionStatus 'error'; the 'System Offline' page shows only
\* when a round has failed and no round has ever succeeded.
C26_FailedRoundKeepsDisplay ==
    /\ [][WbRoundFails =>
            /\ wbBalloons' = wbBalloons /\ wbStorms' = wbStorms
            /\ wbError' # Null /\ connectionStatus' = "error"]_vars
    /\ [](SystemOffline => (wbEverFailed /\ ~wbEverOk))

\* A round failed after a round had succeeded: the data stays, the error is
\* set, the page is not 'System Offline'
C26_Witness ==
    /\ wbEverOk /\ wbEverFailed
    /\ wbBalloons # Null /\ wbStorms = Some(<<H1>>)
    /\ wbError = Some("Failed to fetch") /\ connectionStatus = "error"
    /\ WbInFlight = 0
    /\ ~SystemOffline

\* C27: with no round in flight isLoading is false and connectionStatus is
\* 'connected' exactly when error is null; with a round in flight isLoading
\* is true.
C27_StatusConsistent ==
    /\ WbInFlight = 0 =>
          (~isLoading /\ (connectionStatus = "connected" <=> wbError = Null))
    /\ WbInFlight > 0 => isLoading

\* The first half of C27 alone: the flags once no round is in flight
StatusConsistentAtRest ==
    WbInFlight = 0 =>
        (~isLoading /\ (connectionStatus = "connected" <=> wbError = Null))

\* C28: in both dashboards balloons is null if and only if storms is null,
\* and the windborne status is never 'warning' (Partial data).
C28_UpdatedTogether ==
    /\ balloons = Null <=> storms = Null
    /\ wbBalloons = Null <=> wbStorms = Null
    /\ getSystemStatus # "warning"

\* The hurricane dashboard holds both datasets; in the windborne dashboard
\* the storms request failed while the balloons request did not, and
\* neither dataset is held.
C28_Witness ==
    /\ balloons # Null /\ storms # Null /\ lastRound = "ok"
    /\ wbError = Some("Storms API error: 500")
    /\ wbBalloons = Null /\ wbStorms = Null
    /\ ~isLoading

-----------------------------------------------------------------------------
(* Specifications *)

\* One component runs in each specification; the others stay as they are.
notApp == <<sliderVars, viewVars, filters, wbVars, wbFetchVars, cacheVars>>
notFetch == <<viewVars, wbVars, wbFetchVars, cacheVars>>
notCache == <<appVars, sliderVars, viewVars, filters, wbVars, wbFetchVars>>
notWb == <<appVars, sliderVars, viewVars, filters, wbFetchVars, cacheVars>>
notWbFetch == <<appVars, sliderVars, viewVars, filters, wbVars, cacheVars>>
notSlider == <<balloons, storms, loading, error, monitoringBalloons, inFlight,
               effectPending, crashed, lastRound, passLog, filteredBalloons,
               viewVars, filters, wbVars, wbFetchVars, cacheVars>>
notView == <<appVars, sliderVars, wbVars, wbFetchVars, cacheVars>>

\* The view state of the App and the StormFilter as they mount, with a user
\* who does nothing
ViewIdle ==
    /\ stormFilters = InitialFilters
    /\ selectedBalloonId = Null
    /\ showCoverage = FALSE
    /\ traditionalStations = Null
    /\ stationsInFlight = 0
    /\ filteredStorms = Null
    /\ viewActs = 0
    /\ filters = InitialFilters

\* TimeSlider as it mounts, with a user who does nothing
SliderIdle ==
    /\ currentTime = 100
    /\ isPlaying = FALSE
    /\ lastAct = "none"
    /\ userActs = 0

\* The windborne dashboard before it mounts
WbIdle ==
    /\ isLive = TRUE
    /\ mounted = FALSE
    /\ timers = 0
    /\ interval = FALSE
    /\ timerAge = 0
    /\ fetchAge = 0
    /\ fetchBy = "none"
    /\ wbUserActs = 0

\* The hurricane dashboard App
Init == AppMounted /\ SliderIdle /\ ViewIdle /\ WbIdle /\ WbFetchIdle /\ CacheIdle
Next ==
    \/ FetchStart /\ UNCHANGED notFetch
    \/ \E b \in FeedBalloons, s \in FeedStorms : FetchOk(b, s) /\ UNCHANGED notFetch
    \/ \E j \in Jitters : FetchFail(j) /\ UNCHANGED notFetch
    \/ ProximityEffect /\ UNCHANGED notApp
Spec == Init /\ [][Next]_vars

\* The proximity classifier on drawn datasets
InitClassify == ClassifierInputs /\ SliderIdle /\ ViewIdle /\ WbIdle /\ WbFetchIdle /\ CacheIdle
NextClassify == ProximityEffect /\ UNCHANGED notApp
SpecClassify == InitClassify /\ [][NextClassify]_vars

\* The proximity classifier on the scenarios of the design
InitScenario == ScenarioInputs /\ SliderIdle /\ ViewIdle /\ WbIdle /\ WbFetchIdle /\ CacheIdle
NextScenario == ProximityEffect /\ UNCHANGED notApp
SpecScenario == InitScenario /\ [][NextScenario]_vars

\* The proximity classifier about the threshold
InitBoundary == BoundaryInputs /\ SliderIdle /\ ViewIdle /\ WbIdle /\ WbFetchIdle /\ CacheIdle
NextBoundary == ProximityEffect /\ UNCHANGED notApp
SpecBoundary == InitBoundary /\ [][NextBoundary]_vars

\* The windborne dashboard's data effect; time passes and due timers fire
InitWindborne == AppMounted /\ SliderIdle /\ ViewIdle /\ WbClosed /\ WbFetchIdle /\ CacheIdle
NextWindborne ==
    \/ WbMount /\ UNCHANGED notWb
    \/ WbToggleLive /\ UNCHANGED notWb
    \/ WbMapCenterChange /\ UNCHANGED notWb
    \/ WbUnmount /\ UNCHANGED notWb
    \/ WbTimerFire /\ UNCHANGED notWb
    \/ WbMinute /\ UNCHANGED notWb
SpecWindborne ==
    /\ InitWindborne /\ [][NextWindborne]_vars
    /\ WF_vars(WbTimerFire /\ UNCHANGED notWb)
    /\ WF_vars(WbMinute /\ UNCHANGED notWb)

\* The time filter on drawn datasets and slider positions
InitTimeFilter == TimeFilterInputs /\ SliderIdle /\ ViewIdle /\ WbIdle /\ WbFetchIdle /\ CacheIdle
NextTimeFilter == RenderFiltered /\ UNCHANGED notApp
SpecTimeFilter == InitTimeFilter /\ [][NextTimeFilter]_vars

\* The TimeSlider; the interval fires while playback is on
InitTimeSlider == AppShowsMap /\ SliderMounted /\ ViewIdle /\ WbIdle /\ WbFetchIdle /\ CacheIdle
NextTimeSlider ==
    \/ PlaybackTick /\ UNCHANGED notSlider
    \/ \E value \in 0..100 : handleSliderChange(value) /\ UNCHANGED notSlider
    \/ togglePlayback /\ UNCHANGED notSlider
    \/ resetToNow /\ UNCHANGED notSlider
SpecTimeSlider ==
    /\ InitTimeSlider /\ [][NextTimeSlider]_vars
    /\ WF_vars(PlaybackTick /\ UNCHANGED notSlider)

\* getFilteredStorms on drawn storms lists and filter records
InitFilterStorms == FilterInputs /\ SliderIdle /\ WbIdle /\ WbFetchIdle /\ CacheIdle
NextFilterStorms == RenderStorms /\ UNCHANGED notView
SpecFilterStorms == InitFilterStorms /\ [][NextFilterStorms]_vars

\* The App with its children: fetch rounds that succeed, the slider, the
\* storm filter, balloon selection and the coverage toggle
InitView == AppMounted /\ SliderMounted /\ ViewMounted /\ WbIdle /\ WbFetchIdle /\ CacheIdle
NextView ==
    \/ FetchStart /\ UNCHANGED notFetch
    \/ \E s \in ViewStorms : FetchOk(ViewBalloons, s) /\ UNCHANGED notFetch
    \/ ProximityEffect /\ UNCHANGED notApp
    \/ \E value \in SliderStops : handleSliderChange(value) /\ UNCHANGED notSlider
    \/ resetToNow /\ UNCHANGED notSlider
    \/ \E severity \in ViewSeverities :
           handleSeverityChange(severity, ~filters.severity[severity]) /\ UNCHANGED notView
    \/ \E eventType \in DOMAIN filters.eventType :
           handleEventTypeChange(eventType, ~filters.eventType[eventType])
           /\ UNCHANGED notView
    \/ handleShowAllToggle /\ UNCHANGED notView
    \/ \E id \in ViewIds : handleBalloonSelect(id) /\ UNCHANGED notView
    \/ handleCloseTelemetry /\ UNCHANGED notView
    \/ handleCoverageToggle /\ UNCHANGED notView
    \/ \E data \in StationsData : StationsOk(data) /\ UNCHANGED notView
    \/ StationsFail /\ UNCHANGED notView
SpecView == InitView /\ [][NextView]_vars

\* The fetchData rounds of the windborne dashboard
InitWbFetch == AppMounted /\ SliderIdle /\ ViewIdle /\ WbIdle /\ WbFetchMounted /\ CacheIdle
NextWbFetch ==
    \/ WbFetchStart /\ UNCHANGED notWbFetch
    \/ \E b \in WbFeedBalloons, s \in WbFeedStorms : WbFetchOk(b, s) /\ UNCHANGED notWbFetch
    \/ WbFetchDone /\ UNCHANGED notWbFetch
    \/ \E message \in WbErrors : WbFetchFail(message) /\ UNCHANGED notWbFetch
SpecWbFetch == InitWbFetch /\ [][NextWbFetch]_vars

\* Both dashboards, each with its fetch rounds
InitBoth == AppMounted /\ SliderIdle /\ ViewIdle /\ WbIdle /\ WbFetchMounted /\ CacheIdle
NextBoth ==
    \/ FetchStart /\ UNCHANGED notFetch
    \/ \E s \in ViewStorms : FetchOk(ViewBalloons, s) /\ UNCHANGED notFetch
    \/ FetchFail(0) /\ UNCHANGED notFetch
    \/ ProximityEffect /\ UNCHANGED notApp
    \/ WbFetchStart /\ UNCHANGED notWbFetch
    \/ \E b \in WbFeedBalloons, s \in WbFeedStorms : WbFetchOk(b, s) /\ UNCHANGED notWbFetch
    \/ WbFetchDone /\ UNCHANGED notWbFetch
    \/ \E message \in WbErrors : WbFetchFail(message) /\ UNCHANGED notWbFetch
SpecBoth == InitBoth /\ [][NextBoth]_vars

\* A cache instance of the backend, for either dataset
InitCache == AppMounted /\ SliderIdle /\ ViewIdle /\ WbIdle /\ WbFetchIdle /\ dataset \in Keys /\ CacheCold
NextCache ==
    \/ \E c \in Callers : Get(c) /\ UNCHANGED notCache
    \/ \E c \in Callers, s \in Sources : \E p \in Payloads(dataset, s) :
          TaskOk(c, s, p) /\ UNCHANGED notCache
    \/ \E c \in Callers, s \in Sources : TaskFail(c, s) /\ UNCHANGED notCache
    \/ \E c \in Callers : Deadline(c) /\ UNCHANGED notCache
    \/ \E s \in Sources : \E p \in Payloads(dataset, s) :
          LateArrival(s, p) /\ UNCHANGED notCache
    \/ \E c \in Callers : FinishRefresh(c) /\ UNCHANGED notCache
    \/ \E c \in Callers : Return(c) /\ UNCHANGED notCache
    \/ Tick /\ UNCHANGED notCache
SpecCache == InitCache /\ [][NextCache]_vars

====
